---- MODULE Spec2Model ----
(***************************************************************************)
(* Model of clean_backup.py: the remote backup script, the pull of the     *)
(* archive, the batched purge of old rows and the remote cleanup, as       *)
(* driven by main().  Time is counted in days; a row is represented by its *)
(* `created` day, a table by the number of rows it holds per created day.  *)
(***************************************************************************)
EXTENDS Integers, Sequences, FiniteSets, TLC

\* ------------------------------------------------------------------ bounds
MaxTicks == 1          \* how many days the clock may advance in a behaviour
MaxRuns == 2           \* how many times the script is started
MaxPurgeFailures == 1  \* how many DELETE statements may raise per run

\* ------------------------------------------------------- program constants
TABLES ==
  << "ismart_create_order", "customer_input_details", "transaction_details",
     "merchant_request4customer", "status_change_logs_model",
     "merchant_balance_sheet", "user_details", "callbacklog",
     "pginput_from_customer_details", "transaction_details_log" >>

RETENTION == [t \in {"transaction_details_log", "user_details"} |->
                IF t = "transaction_details_log" THEN 1 ELSE 60]

DEFAULT_RETENTION_DAYS == 7
BATCH_SIZE == 1000

TableSet == {TABLES[i] : i \in 1..Len(TABLES)}

\* created days that occur in the seeded tables (the run starts on day 0)
Createds == {-61, -60, -8, -7, -2, -1, 0}

\* the retention tables a deployment may be configured with: the shipped one
\* and two that carry a non-positive override
RetentionConfigs ==
  { [RETENTION EXCEPT !["transaction_details_log"] = d] : d \in {1, 0, -1} }

\* ------------------------------------------------------------ row helpers
Min(a, b) == IF a < b THEN a ELSE b
Max(a, b) == IF a > b THEN a ELSE b

EmptyTable == [c \in Createds |-> 0]

RECURSIVE SumOver(_, _)
SumOver(b, S) ==
  IF S = {} THEN 0
  ELSE LET c == CHOOSE x \in S : TRUE IN b[c] + SumOver(b, S \ {c})

RowCount(b) == SumOver(b, Createds)

\* DATE_SUB(NOW(), INTERVAL days DAY)
DateSub(nowDay, days) == nowDay - days

\* variant: the comparison also takes the rows created exactly at the cutoff
OlderThan_Inclusive(b, cutoff) ==
  [c \in Createds |-> IF c <= cutoff THEN b[c] ELSE 0]

\* rows matching  created < cutoff
OlderThan(b, cutoff) ==
  [c \in Createds |-> IF c < cutoff THEN b[c] ELSE 0]

Minus(b, d) == [c \in Createds |-> b[c] - d[c]]

\* every way of taking n rows out of b restricted to the created days S
RECURSIVE Take(_, _, _)
Take(b, S, n) ==
  IF S = {} THEN {<<>>}
  ELSE LET c == CHOOSE x \in S : TRUE
           rest == S \ {c}
           cap == SumOver(b, rest)
       IN UNION { { (c :> k) @@ d : d \in Take(b, rest, n - k) } :
                  k \in Max(0, n - cap)..Min(b[c], n) }

\* the row sets a  DELETE ... WHERE created < cutoff LIMIT BATCH_SIZE  may remove
DeleteLimit(b, nowDay, days) ==
  LET elig == OlderThan(b, DateSub(nowDay, days))
  IN Take(elig, Createds, Min(RowCount(elig), BATCH_SIZE))

\* variant: the override table is ignored
RetentionGet_DefaultOnly(cfg, table) == DEFAULT_RETENTION_DAYS

\* RETENTION.get(table, DEFAULT_RETENTION_DAYS)
RetentionGet(cfg, table) ==
  IF table \in DOMAIN cfg THEN cfg[table] ELSE DEFAULT_RETENTION_DAYS

\* ---------------------------------------------------------- seeded tables
Seed(tdl, ud, cb) ==
  [t \in TableSet |->
     CASE t = "transaction_details_log" -> tdl
       [] t = "user_details" -> ud
       [] t = "callbacklog" -> cb
       [] OTHER -> EmptyTable]

Rows(old, oldN, new, newN) ==
  [c \in Createds |-> IF c = old THEN oldN ELSE IF c = new THEN newN ELSE 0]

ExampleSeed == Seed(Rows(-2, 10, 0, 5), Rows(-61, 3, -60, 0), EmptyTable)

Seeds ==
  { ExampleSeed,
    Seed(Rows(-2, BATCH_SIZE, -1, 2), EmptyTable, Rows(-8, BATCH_SIZE + 3, -7, 5)),
    Seed(Rows(-2, 2 * BATCH_SIZE, -1, 0), Rows(-61, 3, -60, 4), EmptyTable) }

VARIABLES
  retention,      \* the configured RETENTION table
  now,            \* the database clock, in days
  ticks,          \* days elapsed since the first start
  rows,           \* committed rows of every table
  seedRows,       \* rows of every table at the first start
  runRows,        \* rows of every table when the current run started
  runs,           \* number of runs started
  pc,             \* position of main()
  scriptPos,      \* next command of the remote script
  remoteFiles,    \* files of this run on the remote host
  fullDumped,     \* the full dump of the remote script: "no", "ok", "failed"
  dumpFailed,     \* tables whose filtered dump failed
  dumpAttempted,  \* tables whose filtered dump was started
  dumpedOk,       \* tables whose filtered dump succeeded
  dumpDays,       \* INTERVAL used by each table's filtered dump
  dumpRows,       \* rows written by each table's filtered dump
  zipped,         \* the remote zip command succeeded
  backup_success, \* main()'s flag
  pulled,         \* "no", "ok" or "failed"
  tblIdx,         \* index in TABLES of the purge loop
  pending,        \* rows deleted by the open transaction
  deleted,        \* cursor.rowcount of the last DELETE
  total_deleted,  \* per table, purge_old_rows' total_deleted
  executes,       \* per table, DELETE statements issued in this run
  commits,        \* per table, commits made in this run
  purgeDays,      \* INTERVAL used by each table's purge
  purgeCutoff,    \* NOW() - INTERVAL of each table's latest DELETE
  purgeFailed,    \* tables whose purge raised
  purgeFinished,  \* tables whose purge_old_rows returned
  cleanup,        \* "no", "ok" or "failed"
  errors,         \* log.error records of this run
  exitCode,       \* -1 while running or killed, else the process exit status
  firstCutoff,    \* NOW() - INTERVAL of each table's first DELETE of this run
  localZip,       \* the pulled archive on disk: "none", "nonempty", "empty"
  sshOpened,      \* SSH connections established in this run
  sshClosed,      \* of those, the ones that were closed again
  attempts,       \* per remote operation, how often this run started it
  zpc,            \* position of a call of dump_table or dump_full_db
  zScope,         \* "full" or the table the call dumps
  sqlFile,        \* the .sql intermediate: "absent", "partial", "complete"
  zipFile,        \* the archive: "absent", "stale", "open", "written",
                  \* "sealed", "broken"
  zUnlinked,      \* the call has deleted the intermediate
  zFailedAt       \* the step of the call that raised, or "none"

runVars == << scriptPos, remoteFiles, fullDumped, dumpFailed, dumpAttempted, dumpedOk,
              dumpDays, dumpRows, zipped, backup_success, pulled, tblIdx,
              pending, deleted, total_deleted, executes, commits, purgeDays,
              purgeCutoff, purgeFailed, purgeFinished, cleanup, errors,
              exitCode, firstCutoff, localZip, sshOpened, sshClosed,
              attempts >>

mainVars == << retention, now, ticks, rows, seedRows, runRows, runs, pc,
               runVars >>

zipVars == << zpc, zScope, sqlFile, zipFile, zUnlinked, zFailedAt >>

vars == << mainVars, zipVars >>

\* the operations main() performs on the remote host
RemoteOps == {"upload", "script", "pull", "cleanup"}

NoDays == <<>>  \* no table has an INTERVAL or cutoff recorded yet
NumTables == Len(TABLES)

\* main() calls neither dump_table nor dump_full_db
ZipIdle ==
  /\ zpc = "idle"
  /\ zScope = "full"
  /\ sqlFile = "absent"
  /\ zipFile = "absent"
  /\ zUnlinked = FALSE
  /\ zFailedAt = "none"

\* state of a run when main() is entered and the script has been generated
RunInit ==
  /\ pc = "upload"
  /\ scriptPos = 0
  /\ remoteFiles = {}
  /\ fullDumped = "no"
  /\ dumpFailed = {}
  /\ dumpAttempted = {}
  /\ dumpedOk = {}
  /\ dumpDays = NoDays
  /\ dumpRows = NoDays
  /\ zipped = FALSE
  /\ backup_success = FALSE
  /\ pulled = "no"
  /\ tblIdx = 0
  /\ pending = EmptyTable
  /\ deleted = 0
  /\ total_deleted = [t \in TableSet |-> 0]
  /\ executes = [t \in TableSet |-> 0]
  /\ commits = [t \in TableSet |-> 0]
  /\ purgeDays = NoDays
  /\ purgeCutoff = NoDays
  /\ purgeFailed = {}
  /\ purgeFinished = {}
  /\ cleanup = "no"
  /\ errors = {}
  /\ exitCode = -1
  /\ firstCutoff = NoDays
  /\ localZip = "none"
  /\ sshOpened = 0
  /\ sshClosed = 0
  /\ attempts = [op \in RemoteOps |-> 0]

Init ==
  /\ \/ retention = RETENTION /\ rows \in Seeds
     \/ retention \in RetentionConfigs /\ rows = ExampleSeed
  /\ now = 0
  /\ ticks = 0
  /\ seedRows = rows
  /\ runRows = rows
  /\ runs = 1
  /\ RunInit
  /\ ZipIdle

\* --------------------------------------------------------------- main()
\* one more attempt of a remote operation
Attempt(op) == attempts' = [attempts EXCEPT ![op] = @ + 1]

\* ssh.connect() succeeded `opened` times and ssh.close() ended `closed` of
\* the established connections
Session(opened, closed) ==
  /\ sshOpened' = sshOpened + opened
  /\ sshClosed' = sshClosed + closed

\* step 3: the generated script is copied to the remote host; a failure of
\* connect or put is logged and re-raised, a failure to load the key is not
\* logged; either leaves main() as an uncaught exception
UploadScript ==
  /\ pc = "upload"
  /\ Attempt("upload")
  /\ \/ /\ pc' = "run_script"
        /\ remoteFiles' = remoteFiles \cup {"script"}
        /\ Session(1, 1)
        /\ UNCHANGED << errors, exitCode >>
     \/ /\ pc' = "done"
        /\ exitCode' = 1
        /\ \E stage \in {"key", "connect", "put"} :
             /\ errors' = IF stage = "key" THEN errors
                          ELSE errors \cup {"sftp_put"}
             /\ IF stage = "put" THEN Session(1, 1) ELSE Session(0, 0)
        /\ UNCHANGED remoteFiles
  /\ UNCHANGED << retention, now, ticks, rows, seedRows, runRows, runs,
                  scriptPos, fullDumped, dumpFailed, dumpAttempted, dumpedOk,
                  dumpDays, dumpRows, zipped, backup_success, pulled,
                  tblIdx, pending, deleted, total_deleted, executes, commits,
                  purgeDays, purgeCutoff, purgeFailed, purgeFinished, cleanup,
                  firstCutoff, localZip >>
  /\ UNCHANGED zipVars

\* variant: the failure is logged but main() goes on to the pull
BackupFailed_NoReturn ==
  /\ pc' = "pull"
  /\ errors' = errors \cup {"remote_script"}
  /\ UNCHANGED << exitCode, backup_success >>

\* lines 250-255: the remote command raised; main() logs and returns
BackupFailed ==
  /\ pc' = "done"
  /\ exitCode' = 0
  /\ errors' = errors \cup {"remote_script", "backup_failed"}
  /\ UNCHANGED backup_success

scriptFrame == << retention, now, ticks, rows, seedRows, runRows, runs,
                  pulled, tblIdx, pending, deleted, total_deleted, executes,
                  commits, purgeDays, purgeCutoff, purgeFailed, purgeFinished,
                  cleanup, firstCutoff, localZip >>

\* variant: a failed start of the remote command is tried again
RemoteScriptStart_Retry ==
  /\ pc = "run_script" /\ scriptPos = 0
  /\ Attempt("script")
  /\ \E ok \in BOOLEAN :
       IF ok
       THEN /\ scriptPos' = 1
            /\ Session(1, 0)
            /\ UNCHANGED << pc, exitCode, errors, backup_success >>
       ELSE /\ UNCHANGED << pc, exitCode, errors, backup_success >>
            /\ Session(0, 0)
            /\ UNCHANGED scriptPos
  /\ UNCHANGED << scriptFrame, remoteFiles, fullDumped, dumpFailed,
                  dumpAttempted, dumpedOk, dumpDays, dumpRows, zipped >>
  /\ UNCHANGED zipVars

\* step 4: run_remote_cmd_paramiko loads the key, connects and starts
\* bash <script>
RemoteScriptStart ==
  /\ pc = "run_script" /\ scriptPos = 0
  /\ Attempt("script")
  /\ \E ok \in BOOLEAN :
       IF ok
       THEN /\ scriptPos' = 1
            /\ Session(1, 0)
            /\ UNCHANGED << pc, exitCode, errors, backup_success >>
       ELSE /\ BackupFailed
            /\ Session(0, 0)
            /\ UNCHANGED scriptPos
  /\ UNCHANGED << scriptFrame, remoteFiles, fullDumped, dumpFailed,
                  dumpAttempted, dumpedOk, dumpDays, dumpRows, zipped >>
  /\ UNCHANGED zipVars

\* set -e: the first failing command ends the script with a non-zero status;
\* run_remote_cmd_paramiko raises and its finally closes the connection
ScriptMkdir ==
  /\ pc = "run_script" /\ scriptPos = 1
  /\ \E ok \in BOOLEAN :
       IF ok
       THEN /\ scriptPos' = 2
            /\ remoteFiles' = remoteFiles \cup {"dir"}
            /\ Session(0, 0)
            /\ UNCHANGED << pc, exitCode, errors, backup_success >>
       ELSE /\ BackupFailed
            /\ Session(0, 1)
            /\ UNCHANGED << scriptPos, remoteFiles >>
  /\ UNCHANGED << scriptFrame, fullDumped, dumpFailed, dumpAttempted,
                  dumpedOk, dumpDays, dumpRows, zipped, attempts >>
  /\ UNCHANGED zipVars

\* variant: without set -e the script goes on after a failed full dump
ScriptFullDump_NoSetE ==
  /\ pc = "run_script" /\ scriptPos = 2
  /\ \E ok \in BOOLEAN :
       IF ok
       THEN /\ scriptPos' = 3
            /\ fullDumped' = "ok"
            /\ Session(0, 0)
            /\ UNCHANGED << pc, exitCode, errors, backup_success >>
       ELSE /\ fullDumped' = "failed"
            /\ scriptPos' = 3
            /\ Session(0, 0)
            /\ UNCHANGED << pc, exitCode, errors, backup_success >>
  /\ UNCHANGED << scriptFrame, remoteFiles, dumpFailed, dumpAttempted,
                  dumpedOk, dumpDays, dumpRows, zipped, attempts >>
  /\ UNCHANGED zipVars

ScriptFullDump ==
  /\ pc = "run_script" /\ scriptPos = 2
  /\ \E ok \in BOOLEAN :
       IF ok
       THEN /\ scriptPos' = 3
            /\ fullDumped' = "ok"
            /\ Session(0, 0)
            /\ UNCHANGED << pc, exitCode, errors, backup_success >>
       ELSE /\ fullDumped' = "failed"
            /\ BackupFailed
            /\ Session(0, 1)
            /\ UNCHANGED scriptPos
  /\ UNCHANGED << scriptFrame, remoteFiles, dumpFailed, dumpAttempted,
                  dumpedOk, dumpDays, dumpRows, zipped, attempts >>
  /\ UNCHANGED zipVars

\* variant: the connection is not closed when the remote command fails
ScriptTableDump_NoFinally ==
  /\ pc = "run_script" /\ scriptPos \in 3..(NumTables + 2)
  /\ LET table == TABLES[scriptPos - 2]
         days == RetentionGet(retention, table)
     IN /\ dumpAttempted' = dumpAttempted \cup {table}
        /\ dumpDays' = (table :> days) @@ dumpDays
        /\ \E ok \in BOOLEAN :
             IF ok
             THEN /\ scriptPos' = scriptPos + 1
                  /\ dumpedOk' = dumpedOk \cup {table}
                  /\ dumpRows' =
                       (table :> OlderThan(rows[table], DateSub(now, days)))
                         @@ dumpRows
                  /\ Session(0, 0)
                  /\ UNCHANGED << pc, exitCode, errors, backup_success,
                                  dumpFailed >>
             ELSE /\ dumpFailed' = dumpFailed \cup {table}
                  /\ BackupFailed
                  /\ Session(0, 0)
                  /\ UNCHANGED << scriptPos, dumpedOk, dumpRows >>
  /\ UNCHANGED << scriptFrame, remoteFiles, fullDumped, zipped, attempts >>
  /\ UNCHANGED zipVars

\* lines 213-216: one filtered mysqldump per table, in TABLES order
ScriptTableDump ==
  /\ pc = "run_script" /\ scriptPos \in 3..(NumTables + 2)
  /\ LET table == TABLES[scriptPos - 2]
         days == RetentionGet(retention, table)
     IN /\ dumpAttempted' = dumpAttempted \cup {table}
        /\ dumpDays' = (table :> days) @@ dumpDays
        /\ \E ok \in BOOLEAN :
             IF ok
             THEN /\ scriptPos' = scriptPos + 1
                  /\ dumpedOk' = dumpedOk \cup {table}
                  /\ dumpRows' =
                       (table :> OlderThan(rows[table], DateSub(now, days)))
                         @@ dumpRows
                  /\ Session(0, 0)
                  /\ UNCHANGED << pc, exitCode, errors, backup_success,
                                  dumpFailed >>
             ELSE /\ dumpFailed' = dumpFailed \cup {table}
                  /\ BackupFailed
                  /\ Session(0, 1)
                  /\ UNCHANGED << scriptPos, dumpedOk, dumpRows >>
  /\ UNCHANGED << scriptFrame, remoteFiles, fullDumped, zipped, attempts >>
  /\ UNCHANGED zipVars

\* line 217 and lines 164-171, 249: zip, exit status 0, the connection is
\* closed, backup_success = True
ScriptZip ==
  /\ pc = "run_script" /\ scriptPos = NumTables + 3
  /\ Session(0, 1)
  /\ \E ok \in BOOLEAN :
       IF ok
       THEN /\ zipped' = TRUE
            /\ remoteFiles' = remoteFiles \cup {"zip"}
            /\ backup_success' = TRUE
            /\ pc' = "pull"
            /\ scriptPos' = scriptPos + 1
            /\ UNCHANGED << exitCode, errors >>
       ELSE /\ BackupFailed
            /\ UNCHANGED << scriptPos, zipped, remoteFiles >>
  /\ UNCHANGED << scriptFrame, fullDumped, dumpFailed, dumpAttempted,
                  dumpedOk, dumpDays, dumpRows, attempts >>
  /\ UNCHANGED zipVars

\* variant: a failed pull is logged but main() goes on to the purge
PullZip_NoReturn ==
  /\ pc = "pull"
  /\ Attempt("pull")
  /\ \E ok \in BOOLEAN :
       IF ok
       THEN /\ pulled' = "ok"
            /\ localZip' \in {"nonempty", "empty"}
            /\ Session(1, 1)
            /\ pc' = "connect"
            /\ UNCHANGED << exitCode, errors >>
       ELSE /\ pulled' = "failed"
            /\ \E connected \in {0, 1} : Session(connected, connected)
            /\ pc' = "connect"
            /\ UNCHANGED exitCode
            /\ errors' = errors \cup {"sftp_get", "pull_failed"}
            /\ UNCHANGED localZip
  /\ UNCHANGED << retention, now, ticks, rows, seedRows, runRows, runs,
                  scriptPos, remoteFiles, fullDumped, dumpFailed,
                  dumpAttempted, dumpedOk, dumpDays, dumpRows, zipped,
                  backup_success, tblIdx, pending, deleted, total_deleted,
                  executes, commits, purgeDays, purgeCutoff, purgeFailed,
                  purgeFinished, cleanup, firstCutoff >>
  /\ UNCHANGED zipVars

\* step 5: scp_from_remote_paramiko; main() goes on when it returns, whatever
\* the size of the file it wrote; on failure main() logs and returns
PullZip ==
  /\ pc = "pull"
  /\ Attempt("pull")
  /\ \E ok \in BOOLEAN :
       IF ok
       THEN /\ pulled' = "ok"
            /\ localZip' \in {"nonempty", "empty"}
            /\ Session(1, 1)
            /\ pc' = "connect"
            /\ UNCHANGED << exitCode, errors >>
       ELSE /\ pulled' = "failed"
            /\ \E connected \in {0, 1} : Session(connected, connected)
            /\ pc' = "done"
            /\ exitCode' = 0
            /\ errors' = errors \cup {"sftp_get", "pull_failed"}
            /\ UNCHANGED localZip
  /\ UNCHANGED << retention, now, ticks, rows, seedRows, runRows, runs,
                  scriptPos, remoteFiles, fullDumped, dumpFailed,
                  dumpAttempted, dumpedOk, dumpDays, dumpRows, zipped,
                  backup_success, tblIdx, pending, deleted, total_deleted,
                  executes, commits, purgeDays, purgeCutoff, purgeFailed,
                  purgeFinished, cleanup, firstCutoff >>
  /\ UNCHANGED zipVars

\* step 6, lines 267-275 and 285-287: a failed connect is logged and main()
\* goes on to step 7
ConnectMySQL ==
  /\ pc = "connect"
  /\ \E ok \in BOOLEAN :
       IF ok
       THEN /\ pc' = "purge_execute"
            /\ tblIdx' = 1
            /\ UNCHANGED errors
       ELSE /\ pc' = "cleanup"
            /\ errors' = errors \cup {"connect_or_purge"}
            /\ UNCHANGED tblIdx
  /\ UNCHANGED << retention, now, ticks, rows, seedRows, runRows, runs,
                  scriptPos, remoteFiles, fullDumped, dumpFailed,
                  dumpAttempted, dumpedOk, dumpDays, dumpRows, zipped,
                  backup_success, pulled, pending, deleted, total_deleted,
                  executes, commits, purgeDays, purgeCutoff, purgeFailed,
                  purgeFinished, cleanup, exitCode, firstCutoff, localZip,
                  sshOpened, sshClosed, attempts >>
  /\ UNCHANGED zipVars

\* lines 276, 283: the next table of the loop, or conn.close() after the last
NextTable ==
  IF tblIdx = NumTables
  THEN /\ pc' = "cleanup"
       /\ UNCHANGED tblIdx
  ELSE /\ pc' = "purge_execute"
       /\ tblIdx' = tblIdx + 1

purgeFrame == << retention, now, ticks, seedRows, runRows, runs, scriptPos,
                 remoteFiles, fullDumped, dumpFailed, dumpAttempted, dumpedOk,
                 dumpDays, dumpRows, zipped, backup_success, pulled,
                 cleanup, exitCode, localZip, sshOpened, sshClosed,
                 attempts >>

\* variant: an exception of the DELETE ends the whole purge loop
PurgeExecute_AbortLoop ==
  /\ pc = "purge_execute"
  /\ LET table == TABLES[tblIdx]
         days == RetentionGet(retention, table)
     IN /\ executes' = [executes EXCEPT ![table] = @ + 1]
        /\ purgeDays' = (table :> days) @@ purgeDays
        /\ purgeCutoff' = (table :> DateSub(now, days)) @@ purgeCutoff
        /\ firstCutoff' = firstCutoff @@ (table :> DateSub(now, days))
        /\ \/ /\ \E d \in DeleteLimit(rows[table], now, days) :
                   /\ pending' = d
                   /\ deleted' = RowCount(d)
              /\ pc' = "purge_commit"
              /\ UNCHANGED << tblIdx, purgeFailed, errors >>
           \/ /\ Cardinality(purgeFailed) < MaxPurgeFailures
              /\ purgeFailed' = purgeFailed \cup {table}
              /\ errors' = errors \cup {"purge_table"}
              /\ pc' = "cleanup"
              /\ UNCHANGED tblIdx
              /\ UNCHANGED << pending, deleted >>
  /\ UNCHANGED << purgeFrame, rows, total_deleted, commits, purgeFinished >>
  /\ UNCHANGED zipVars

\* purge_old_rows, lines 135-138: one DELETE ... LIMIT BATCH_SIZE; an exception
\* leaves purge_old_rows and is logged by main() at line 282
PurgeExecute ==
  /\ pc = "purge_execute"
  /\ LET table == TABLES[tblIdx]
         days == RetentionGet(retention, table)
     IN /\ executes' = [executes EXCEPT ![table] = @ + 1]
        /\ purgeDays' = (table :> days) @@ purgeDays
        /\ purgeCutoff' = (table :> DateSub(now, days)) @@ purgeCutoff
        /\ firstCutoff' = firstCutoff @@ (table :> DateSub(now, days))
        /\ \/ /\ \E d \in DeleteLimit(rows[table], now, days) :
                   /\ pending' = d
                   /\ deleted' = RowCount(d)
              /\ pc' = "purge_commit"
              /\ UNCHANGED << tblIdx, purgeFailed, errors >>
           \/ /\ Cardinality(purgeFailed) < MaxPurgeFailures
              /\ purgeFailed' = purgeFailed \cup {table}
              /\ errors' = errors \cup {"purge_table"}
              /\ NextTable
              /\ UNCHANGED << pending, deleted >>
  /\ UNCHANGED << purgeFrame, rows, total_deleted, commits, purgeFinished >>
  /\ UNCHANGED zipVars

\* variant: purge_old_rows returns after its first batch
PurgeCommit_SingleBatch ==
  /\ pc = "purge_commit"
  /\ LET table == TABLES[tblIdx]
     IN /\ rows' = [rows EXCEPT ![table] = Minus(@, pending)]
        /\ commits' = [commits EXCEPT ![table] = @ + 1]
        /\ pending' = EmptyTable
        /\ total_deleted' = [total_deleted EXCEPT ![table] = @ + deleted]
        /\ purgeFinished' = purgeFinished \cup {table}
        /\ NextTable
  /\ UNCHANGED << purgeFrame, deleted, executes, purgeDays, purgeCutoff,
                  purgeFailed, errors, firstCutoff >>
  /\ UNCHANGED zipVars

\* purge_old_rows, lines 139-145: commit, then stop on an empty batch
PurgeCommit ==
  /\ pc = "purge_commit"
  /\ LET table == TABLES[tblIdx]
     IN /\ rows' = [rows EXCEPT ![table] = Minus(@, pending)]
        /\ commits' = [commits EXCEPT ![table] = @ + 1]
        /\ pending' = EmptyTable
        /\ IF deleted = 0
           THEN /\ purgeFinished' = purgeFinished \cup {table}
                /\ NextTable
                /\ UNCHANGED total_deleted
           ELSE /\ total_deleted' = [total_deleted EXCEPT ![table] = @ + deleted]
                /\ pc' = "purge_execute"
                /\ UNCHANGED << tblIdx, purgeFinished >>
  /\ UNCHANGED << purgeFrame, deleted, executes, purgeDays, purgeCutoff,
                  purgeFailed, errors, firstCutoff >>
  /\ UNCHANGED zipVars

\* variant: a failed cleanup leaves main() as an uncaught exception
RemoteCleanup_Raise ==
  /\ pc = "cleanup"
  /\ Attempt("cleanup")
  /\ \E ok \in BOOLEAN :
       IF ok
       THEN /\ cleanup' = "ok"
            /\ remoteFiles' = remoteFiles \ {"dir", "zip", "script"}
            /\ Session(1, 1)
            /\ UNCHANGED errors
       ELSE /\ cleanup' = "failed"
            /\ \E connected \in {0, 1} : Session(connected, connected)
            /\ errors' = errors \cup {"remote_cmd", "cleanup_failed"}
            /\ UNCHANGED remoteFiles
  /\ pc' = "done"
  /\ exitCode' = IF cleanup' = "failed" THEN 1 ELSE 0
  /\ UNCHANGED << retention, now, ticks, rows, seedRows, runRows, runs,
                  scriptPos, fullDumped, dumpFailed, dumpAttempted, dumpedOk,
                  dumpDays, dumpRows, zipped, backup_success, pulled,
                  tblIdx, pending, deleted, total_deleted, executes, commits,
                  purgeDays, purgeCutoff, purgeFailed, purgeFinished,
                  firstCutoff, localZip >>
  /\ UNCHANGED zipVars

\* variant: the cleanup command does not name the uploaded script
RemoteCleanup_KeepScript ==
  /\ pc = "cleanup"
  /\ Attempt("cleanup")
  /\ \E ok \in BOOLEAN :
       IF ok
       THEN /\ cleanup' = "ok"
            /\ remoteFiles' = remoteFiles \ {"dir", "zip"}
            /\ Session(1, 1)
            /\ UNCHANGED errors
       ELSE /\ cleanup' = "failed"
            /\ \E connected \in {0, 1} : Session(connected, connected)
            /\ errors' = errors \cup {"remote_cmd", "cleanup_failed"}
            /\ UNCHANGED remoteFiles
  /\ pc' = "done"
  /\ exitCode' = 0
  /\ UNCHANGED << retention, now, ticks, rows, seedRows, runRows, runs,
                  scriptPos, fullDumped, dumpFailed, dumpAttempted, dumpedOk,
                  dumpDays, dumpRows, zipped, backup_success, pulled,
                  tblIdx, pending, deleted, total_deleted, executes, commits,
                  purgeDays, purgeCutoff, purgeFailed, purgeFinished,
                  firstCutoff, localZip >>
  /\ UNCHANGED zipVars

\* step 7, lines 289-297: rm -rf of the three remote items; a failure is
\* logged and main() returns normally
RemoteCleanup ==
  /\ pc = "cleanup"
  /\ Attempt("cleanup")
  /\ \E ok \in BOOLEAN :
       IF ok
       THEN /\ cleanup' = "ok"
            /\ remoteFiles' = remoteFiles \ {"dir", "zip", "script"}
            /\ Session(1, 1)
            /\ UNCHANGED errors
       ELSE /\ cleanup' = "failed"
            /\ \E connected \in {0, 1} : Session(connected, connected)
            /\ errors' = errors \cup {"remote_cmd", "cleanup_failed"}
            /\ UNCHANGED remoteFiles
  /\ pc' = "done"
  /\ exitCode' = 0
  /\ UNCHANGED << retention, now, ticks, rows, seedRows, runRows, runs,
                  scriptPos, fullDumped, dumpFailed, dumpAttempted, dumpedOk,
                  dumpDays, dumpRows, zipped, backup_success, pulled,
                  tblIdx, pending, deleted, total_deleted, executes, commits,
                  purgeDays, purgeCutoff, purgeFailed, purgeFinished,
                  firstCutoff, localZip >>
  /\ UNCHANGED zipVars

\* ---------------------------------------------------------- environment
\* the database clock moves on by a day
Tick ==
  /\ ticks < MaxTicks
  /\ pc \notin {"done", "killed"}
  /\ now' = now + 1
  /\ ticks' = ticks + 1
  /\ UNCHANGED << retention, rows, seedRows, runRows, runs, pc, runVars >>
  /\ UNCHANGED zipVars

\* the process is killed; an open transaction is rolled back by the server
Kill ==
  /\ pc \notin {"done", "killed"}
  /\ pc' = "killed"
  /\ pending' = EmptyTable
  /\ UNCHANGED << retention, now, ticks, rows, seedRows, runRows, runs,
                  scriptPos, remoteFiles, fullDumped, dumpFailed,
                  dumpAttempted, dumpedOk, dumpDays, dumpRows, zipped,
                  backup_success, pulled, tblIdx, deleted, total_deleted,
                  executes, commits, purgeDays, purgeCutoff, purgeFailed,
                  purgeFinished, cleanup, errors, exitCode, firstCutoff,
                  localZip, sshOpened, sshClosed, attempts >>
  /\ UNCHANGED zipVars

\* the script is started again, with a new timestamp, on the same database
NewRun ==
  /\ pc \in {"done", "killed"}
  /\ runs < MaxRuns
  /\ runs' = runs + 1
  /\ runRows' = rows
  /\ pc' = "upload"
  /\ scriptPos' = 0
  /\ remoteFiles' = {}
  /\ fullDumped' = "no"
  /\ dumpFailed' = {}
  /\ dumpAttempted' = {}
  /\ dumpedOk' = {}
  /\ dumpDays' = NoDays
  /\ dumpRows' = NoDays
  /\ zipped' = FALSE
  /\ backup_success' = FALSE
  /\ pulled' = "no"
  /\ tblIdx' = 0
  /\ pending' = EmptyTable
  /\ deleted' = 0
  /\ total_deleted' = [t \in TableSet |-> 0]
  /\ executes' = [t \in TableSet |-> 0]
  /\ commits' = [t \in TableSet |-> 0]
  /\ purgeDays' = NoDays
  /\ purgeCutoff' = NoDays
  /\ purgeFailed' = {}
  /\ purgeFinished' = {}
  /\ cleanup' = "no"
  /\ errors' = {}
  /\ exitCode' = -1
  /\ firstCutoff' = NoDays
  /\ localZip' = "none"
  /\ sshOpened' = 0
  /\ sshClosed' = 0
  /\ attempts' = [op \in RemoteOps |-> 0]
  /\ UNCHANGED << retention, now, ticks, rows, seedRows >>
  /\ UNCHANGED zipVars

Next ==
  \/ UploadScript
  \/ RemoteScriptStart
  \/ ScriptMkdir
  \/ ScriptFullDump
  \/ ScriptTableDump
  \/ ScriptZip
  \/ PullZip
  \/ ConnectMySQL
  \/ PurgeExecute
  \/ PurgeCommit
  \/ RemoteCleanup
  \/ Tick
  \/ Kill
  \/ NewRun

Spec == Init /\ [][Next]_vars

\* ------------------------------------- dump_table, dump_full_db (local)
Scopes == {"full"} \cup TableSet

\* the call raises at `step`
ZipRaise(step) ==
  /\ zpc' = "raised"
  /\ zFailedAt' = step

\* a call of dump_table(table, days, stamp) or dump_full_db(stamp) on a
\* directory that may hold files of the same names
ZipInit ==
  /\ retention = RETENTION
  /\ now = 0
  /\ ticks = 0
  /\ rows = ExampleSeed
  /\ seedRows = rows
  /\ runRows = rows
  /\ runs = 1
  /\ RunInit
  /\ zpc = "run_cmd"
  /\ zScope \in Scopes
  /\ sqlFile \in {"absent", "complete"}
  /\ zipFile \in {"absent", "stale"}
  /\ zUnlinked = FALSE
  /\ zFailedAt = "none"

\* run_cmd, lines 76-83: the output file is opened for writing and mysqldump
\* writes to it; a non-zero exit is logged and re-raised
RunCmd ==
  /\ zpc = "run_cmd"
  /\ \/ /\ sqlFile' = "complete"
        /\ zpc' = "zip_open"
        /\ UNCHANGED zFailedAt
     \/ /\ sqlFile' = "partial"
        /\ ZipRaise("run_cmd")
     \/ /\ UNCHANGED sqlFile
        /\ ZipRaise("run_cmd")
  /\ UNCHANGED << mainVars, zScope, zipFile, zUnlinked >>

\* zip_and_move, line 89: ZipFile(zip_path, 'w') creates or truncates the archive
ZipOpen ==
  /\ zpc = "zip_open"
  /\ \/ /\ zipFile' = "open"
        /\ zpc' = "zip_write"
        /\ UNCHANGED zFailedAt
     \/ /\ UNCHANGED zipFile
        /\ ZipRaise("zip_open")
  /\ UNCHANGED << mainVars, zScope, sqlFile, zUnlinked >>

\* variant: source_file.unlink() is placed inside the with block, after zipf.write
ZipWrite_UnlinkInside ==
  /\ zpc = "zip_write"
  /\ \/ /\ zipFile' = "written"
        /\ zpc' = "zip_close"
        /\ sqlFile' = "absent"
        /\ zUnlinked' = TRUE
        /\ UNCHANGED zFailedAt
     \/ /\ zipFile' = "broken"
        /\ ZipRaise("zip_write")
        /\ UNCHANGED << sqlFile, zUnlinked >>
  /\ UNCHANGED << mainVars, zScope >>

\* zip_and_move, line 90: zipf.write; an exception leaves the with block,
\* which closes an archive that lacks the entry
ZipWrite ==
  /\ zpc = "zip_write"
  /\ \/ /\ zipFile' = "written"
        /\ zpc' = "zip_close"
        /\ UNCHANGED << sqlFile, zUnlinked >>
        /\ UNCHANGED zFailedAt
     \/ /\ zipFile' = "broken"
        /\ ZipRaise("zip_write")
        /\ UNCHANGED << sqlFile, zUnlinked >>
  /\ UNCHANGED << mainVars, zScope >>

\* zip_and_move, end of the with block: the central directory is written and
\* the archive closed
ZipClose ==
  /\ zpc = "zip_close"
  /\ \/ /\ zipFile' = "sealed"
        /\ zpc' = "unlink"
        /\ UNCHANGED zFailedAt
     \/ /\ zipFile' = "broken"
        /\ ZipRaise("zip_close")
  /\ UNCHANGED << mainVars, zScope, sqlFile, zUnlinked >>

\* zip_and_move, lines 91-93: source_file.unlink(), then return zip_path
ZipUnlink ==
  /\ zpc = "unlink"
  /\ \/ /\ sqlFile' = "absent"
        /\ zUnlinked' = TRUE
        /\ zpc' = "returned"
        /\ UNCHANGED zFailedAt
     \/ /\ UNCHANGED << sqlFile, zUnlinked >>
        /\ ZipRaise("unlink")
  /\ UNCHANGED << mainVars, zScope, zipFile >>

ZipNext ==
  \/ RunCmd
  \/ ZipOpen
  \/ ZipWrite
  \/ ZipClose
  \/ ZipUnlink

ZipSpec == ZipInit /\ [][ZipNext]_vars

\* ------------------------------------------------------------ properties
NoDelete == \A t \in TableSet : executes[t] = 0

\* C1 (purge gating): a DELETE has been issued against a table in this run
\* only if, earlier in the same run, that table's filtered dump succeeded, the
\* remote script ended with success and the archive was pulled successfully.
\* It holds in every reachable state, hence for every prefix of a killed run.
C1_PurgeGating ==
  \A t \in TableSet :
    executes[t] > 0 =>
      /\ t \in dumpedOk
      /\ fullDumped = "ok" /\ zipped /\ backup_success
      /\ pulled = "ok"

C1_Witness ==
  /\ pc = "purge_commit"
  /\ TABLES[tblIdx] = "transaction_details_log"
  /\ deleted > 0

\* C2 (remote copy gate): once the pull of the archive has failed, no DELETE
\* has been or is issued for any table and no remote cleanup is issued; the
\* remote files stay in place.
C2_RemoteCopyGate ==
  pulled = "failed" =>
    /\ NoDelete
    /\ rows = runRows
    /\ cleanup = "no"
    /\ remoteFiles = {"script", "dir", "zip"}
    /\ pc \in {"done", "killed"} => pc = "done" /\ exitCode = 0

C2_Witness == pulled = "failed" /\ pc = "done" /\ backup_success

\* C3 (full-dataset gate): once the full dump of the remote script has
\* failed, no filtered dump is attempted and no DELETE is issued.
C3_FullDatasetGate ==
  fullDumped = "failed" =>
    /\ dumpAttempted = {}
    /\ NoDelete
    /\ rows = runRows
    /\ pulled = "no"

C3_Witness == fullDumped = "failed" /\ pc = "done"

\* C4 (partition isolation), as claimed: when a run has ended after the
\* filtered dump of one table failed, every other table was dumped, the
\* archive was pulled and every other table's purge was executed.
C4_PartitionIsolation ==
  (pc = "done" /\ dumpFailed # {}) =>
    \A b \in TableSet \ dumpFailed :
      /\ b \in dumpedOk
      /\ pulled = "ok"
      /\ executes[b] > 0

\* C5 (batch completeness): the rows gone from a table are exactly those
\* counted in total_deleted and every DELETE is followed by its own commit;
\* when purge_old_rows has returned, the last batch deleted nothing, the
\* total is the number of rows the table held at the call that are older
\* than the cutoff, and, also after an earlier interrupted run, exactly the
\* rows older than the cutoff are gone from the seeded table.
C5_BatchCompleteness ==
  /\ \A t \in TableSet :
       /\ RowCount(runRows[t]) - RowCount(rows[t]) = total_deleted[t]
       /\ commits[t] \in {executes[t], executes[t] - 1}
       /\ commits[t] = executes[t] - 1 =>
            \/ pc = "purge_commit" /\ TABLES[tblIdx] = t
            \/ t \in purgeFailed
            \/ pc = "killed"
       /\ t \in purgeFinished =>
            /\ commits[t] = executes[t]
            /\ total_deleted[t] = RowCount(OlderThan(runRows[t], purgeCutoff[t]))
            /\ rows[t] = Minus(seedRows[t], OlderThan(seedRows[t], purgeCutoff[t]))
            /\ purgeCutoff[t] = DateSub(0, purgeDays[t]) =>
                 executes[t] =
                   ((total_deleted[t] + BATCH_SIZE - 1) \div BATCH_SIZE) + 1
  /\ (pc = "purge_execute" /\ executes[TABLES[tblIdx]] > 0) => deleted > 0
  /\ (pc = "purge_execute" /\ executes[TABLES[tblIdx]] = 0 /\ tblIdx > 1
        /\ TABLES[tblIdx - 1] \in purgeFinished) => deleted = 0
  /\ (pc = "cleanup" /\ TABLES[NumTables] \in purgeFinished) => deleted = 0

C5_Witness ==
  /\ runs = 2
  /\ "callbacklog" \in purgeFinished
  /\ RowCount(seedRows["callbacklog"]) - RowCount(runRows["callbacklog"])
       = BATCH_SIZE
  /\ total_deleted["callbacklog"] = 3
  /\ purgeCutoff["callbacklog"] = DateSub(0, DEFAULT_RETENTION_DAYS)

\* C6 (retention resolution): the INTERVAL of a table's filtered dump and of
\* its purge is the table's entry in the configured retention table when it
\* has one and DEFAULT_RETENTION_DAYS otherwise; with the shipped table that
\* is 1 for transaction_details_log, 60 for user_details and 7 for the rest.
C6_RetentionResolution ==
  \A t \in TableSet :
    \A days \in {dumpDays[x] : x \in {t} \cap DOMAIN dumpDays}
                 \cup {purgeDays[x] : x \in {t} \cap DOMAIN purgeDays} :
      /\ t \in DOMAIN retention => days = retention[t]
      /\ t \notin DOMAIN retention => days = DEFAULT_RETENTION_DAYS
      /\ retention = RETENTION =>
           days = (CASE t = "transaction_details_log" -> 1
                     [] t = "user_details" -> 60
                     [] OTHER -> 7)

C6_Witness ==
  /\ retention = RETENTION
  /\ {"transaction_details_log", "user_details", "callbacklog"}
       \subseteq DOMAIN purgeDays
  /\ dumpDays["transaction_details_log"] = 1
  /\ purgeDays["transaction_details_log"] = 1
  /\ purgeDays["user_details"] = 60
  /\ purgeDays["callbacklog"] = 7

\* C7 (retention validation), as claimed: a table whose resolved retention is
\* 0 or negative is never dumped or purged with that value, and the archive
\* of such a run is never pulled.
C7_RetentionValidation ==
  \A t \in TableSet :
    RetentionGet(retention, t) <= 0 =>
      /\ t \notin DOMAIN dumpDays
      /\ t \notin DOMAIN purgeDays
      /\ pulled = "no"

\* C8 (purge touches only eligible rows): a step changes the rows of a table
\* only by committing a DELETE of that table's purge, and the rows it removes
\* are older than that statement's cutoff; in the example (10 rows older than
\* 1 day and 5 newer in transaction_details_log, 3 rows older than 60 days in
\* user_details) a run that purged both tables while the 5 newer rows were
\* still within their day deleted 10 and 3 rows and left the 5.
C8_StepOnlyEligible ==
  \A t \in TableSet : \A c \in Createds :
    rows'[t][c] # rows[t][c] =>
      /\ pc = "purge_commit"
      /\ t = TABLES[tblIdx]
      /\ rows'[t][c] < rows[t][c]
      /\ rows'[t][c] >= 0
      /\ c < purgeCutoff[t]

C8_Example ==
  ( /\ seedRows = ExampleSeed /\ retention = RETENTION /\ runs = 1
    /\ pc = "done"
    /\ {"transaction_details_log", "user_details"} \subseteq purgeFinished
    /\ ~ (0 < DateSub(now, 1)) ) =>
      /\ total_deleted["transaction_details_log"] = 10
      /\ total_deleted["user_details"] = 3
      /\ rows["transaction_details_log"] = Rows(-2, 0, 0, 5)
      /\ RowCount(rows["user_details"]) = 0

C8_PurgeOnlyEligible == [][C8_StepOnlyEligible]_vars /\ []C8_Example

C8_Witness ==
  /\ seedRows = ExampleSeed /\ retention = RETENTION /\ runs = 1
  /\ pc = "done"
  /\ total_deleted["transaction_details_log"] = 10
  /\ total_deleted["user_details"] = 3
  /\ rows["transaction_details_log"][0] = 5

\* C9 (cleanup failure is non-fatal): when the remote cleanup has failed the
\* failure is logged, the rows deleted by the purge are still gone, and
\* main() returns with the same exit status as after a successful cleanup.
C9_CleanupNonFatal ==
  /\ cleanup = "failed" =>
       /\ "cleanup_failed" \in errors
       /\ \A t \in TableSet :
            RowCount(rows[t]) = RowCount(runRows[t]) - total_deleted[t]
       /\ remoteFiles = {"script", "dir", "zip"}
  /\ cleanup \in {"ok", "failed"} => pc = "done" /\ exitCode = 0

C9_Witness ==
  /\ cleanup = "failed"
  /\ pc = "done"
  /\ total_deleted["transaction_details_log"] > 0

\* C10 (degraded success is distinguishable), as claimed: a run that has
\* finished after a table's filtered dump or purge failed ends with an exit
\* status other than 0, the exit status of a run in which every step succeeded.
C10_DegradedDistinct ==
  (pc = "done" /\ (purgeFailed # {} \/ dumpFailed # {})) => exitCode # 0

\* C11 (every purged row was archived), as claimed: the rows that are gone
\* from a table in this run are contained in the rows written by that table's
\* filtered dump of this run.
C11_PurgedRowsArchived ==
  \A t \in TableSet : \A c \in Createds :
    rows[t][c] < runRows[t][c] =>
      /\ t \in DOMAIN dumpRows
      /\ runRows[t][c] - rows[t][c] <= dumpRows[t][c]

\* C12 (stable cutoff), as claimed: every DELETE of a table's purge uses the
\* cutoff of that purge's first DELETE, and no row that was not older than
\* that first cutoff is deleted by the purge.
C12_StableCutoff ==
  \A t \in DOMAIN purgeCutoff :
    /\ purgeCutoff[t] = firstCutoff[t]
    /\ \A c \in Createds : rows[t][c] < runRows[t][c] => c < firstCutoff[t]

\* C13 (local copy confirmation), as claimed: a DELETE or the remote cleanup
\* is issued only after the pull returned success and left a non-empty
\* local archive.
C13_LocalCopyConfirmed ==
  (~ NoDelete \/ cleanup # "no") => (pulled = "ok" /\ localZip = "nonempty")

\* a step that is not listed as continuing on failure has failed in this run
UploadFailed == pc = "done" /\ exitCode = 1
ScriptFailed == "remote_script" \in errors
ConnectFailed == "connect_or_purge" \in errors

\* C14 (abort leaves state untouched), as claimed: after a failed upload,
\* remote script, pull or database connect the failure is reported, no row is
\* deleted and the remote files are not removed.
C14_AbortUntouched ==
  (UploadFailed \/ ScriptFailed \/ pulled = "failed" \/ ConnectFailed) =>
    /\ errors # {} \/ exitCode = 1
    /\ rows = runRows
    /\ cleanup # "ok"

\* C15 (purge failure is contained to its partition): the purge loop visits
\* the tables in TABLES order; a table whose DELETE raised gets no further
\* DELETE and loses no further row in that run; and once the loop is over
\* every table has had its DELETE issued, whichever tables failed.
C15_Order ==
  /\ pc \in {"purge_execute", "purge_commit"} =>
       \A i \in 1..NumTables :
         /\ i < tblIdx => /\ executes[TABLES[i]] >= 1
                          /\ TABLES[i] \in purgeFinished \cup purgeFailed
         /\ i > tblIdx => executes[TABLES[i]] = 0
  /\ (pc \in {"cleanup", "done"} /\ tblIdx >= 1) =>
       \A t \in TableSet :
         /\ executes[t] >= 1
         /\ t \in purgeFinished \cup purgeFailed
  /\ purgeFailed \cap purgeFinished = {}

C15_FailedStaysStopped ==
  \A t \in purgeFailed \cap purgeFailed' :
    /\ executes'[t] = executes[t]
    /\ rows'[t] = rows[t]

C15_PurgeFailureContained ==
  []C15_Order /\ [][C15_FailedStaysStopped]_vars

C15_Witness ==
  /\ pc = "done"
  /\ purgeFailed = {"user_details"}
  /\ total_deleted["user_details"] = 3
  /\ "transaction_details_log" \in purgeFinished
  /\ total_deleted["transaction_details_log"] > 0

\* C16 (remote cleanup ordering and coverage): the cleanup command is issued
\* at most once per run and only when the purge phase is over for every
\* table (each purge returned or raised, or the connect failed), with the
\* three remote items in place; when it succeeds none of the three is left.
C16_CleanupOrdering ==
  /\ attempts["cleanup"] <= 1
  /\ (attempts["cleanup"] = 1) <=> (cleanup # "no")
  /\ pc = "cleanup" => remoteFiles = {"dir", "zip", "script"}
  /\ (pc = "cleanup" \/ cleanup # "no") =>
       /\ pulled = "ok"
       /\ pending = EmptyTable
       /\ \/ ConnectFailed /\ NoDelete
          \/ \A t \in TableSet : t \in purgeFinished \cup purgeFailed
  /\ cleanup # "no" => pc = "done"
  /\ cleanup = "ok" => remoteFiles = {}
  /\ cleanup = "failed" => remoteFiles = {"dir", "zip", "script"}

C16_Witness ==
  /\ cleanup = "ok"
  /\ remoteFiles = {}
  /\ total_deleted["transaction_details_log"] > 0

\* C17 (remote session is always released): while main() runs or after it
\* has returned or raised, the only SSH connection that is open is the one of
\* the remote command that is executing; every other connection that was
\* established has been closed.
C17_SessionReleased ==
  pc # "killed" =>
    sshOpened - sshClosed =
      (IF pc = "run_script" /\ scriptPos >= 1 THEN 1 ELSE 0)

C17_Witness ==
  /\ pc = "done"
  /\ dumpFailed # {}
  /\ sshOpened = 2
  /\ sshClosed = 2

\* C18 (no automatic retry): each remote operation is started at most once
\* per run, and after a failed upload, remote script, pull or cleanup the
\* run is over without a later remote operation having been started.
C18_NoRetry ==
  /\ \A op \in RemoteOps : attempts[op] <= 1
  /\ UploadFailed => attempts = [op \in RemoteOps |->
                                   IF op = "upload" THEN 1 ELSE 0]
  /\ ScriptFailed => /\ pc = "done"
                     /\ attempts["pull"] = 0
                     /\ attempts["cleanup"] = 0
  /\ pulled = "failed" => pc = "done" /\ attempts["cleanup"] = 0
  /\ cleanup = "failed" => pc = "done"

C18_Witness ==
  /\ pc = "done"
  /\ ScriptFailed
  /\ scriptPos = NumTables + 3
  /\ attempts["script"] = 1

\* every blocking call of main() eventually returns or raises
MainStep ==
  \/ UploadScript \/ RemoteScriptStart \/ ScriptMkdir \/ ScriptFullDump
  \/ ScriptTableDump \/ ScriptZip \/ PullZip \/ ConnectMySQL
  \/ PurgeExecute \/ PurgeCommit \/ RemoteCleanup

FairSpec == Spec /\ WF_vars(MainStep)

\* every run that is not killed ends: main() returns or raises
RunTerminates == (pc \notin {"done", "killed"}) ~> (pc \in {"done", "killed"})

\* C19 (run termination), the bound as claimed: a purge that has returned
\* issued at most ceil(N / BATCH_SIZE) + 1 DELETE statements, N being the
\* number of rows of the table that are older than the cutoff of the purge's
\* last DELETE (the largest number of eligible rows the purge has seen).
C19_PurgeBound ==
  \A t \in purgeFinished :
    executes[t] <=
      ((RowCount(OlderThan(runRows[t], purgeCutoff[t])) + BATCH_SIZE - 1)
         \div BATCH_SIZE) + 1

\* C20 (seal-then-delete in zip_and_move): the intermediate is deleted only
\* when its archive has been written and closed; after a call that returned
\* the archive is sealed and the intermediate is gone; and when opening,
\* writing or closing the archive raised, the intermediate is still there,
\* complete.
C20_SealThenDelete ==
  /\ zUnlinked => zipFile = "sealed"
  /\ zpc = "returned" =>
       /\ zipFile = "sealed"
       /\ sqlFile = "absent"
       /\ zUnlinked
  /\ zFailedAt \in {"zip_open", "zip_write", "zip_close"} =>
       /\ ~ zUnlinked
       /\ sqlFile = "complete"
       /\ zipFile # "sealed"

C20_Witness ==
  /\ zpc = "returned"
  /\ zScope = "transaction_details_log"
  /\ zUnlinked

TypeOK ==
  /\ pc \in {"upload", "run_script", "pull", "connect", "purge_execute",
             "purge_commit", "cleanup", "done", "killed"}
  /\ \A t \in TableSet : \A c \in Createds : rows[t][c] >= 0
====
